---- MODULE Spec2Model ----
(***************************************************************************)
(* A model of rullo.py: solve(board) strips the sum row and the sum column *)
(* off the board it is handed, then explore() searches the row masks depth *)
(* first and validates the column sums at the leaves.                      *)
(*                                                                         *)
(* Python lists are objects: the model keeps a heap of row objects, and    *)
(* board and solution are lists of addresses into it, so that the shallow  *)
(* copy board[:] and the slot assignment solution[r] = row mean what they  *)
(* mean in Python.  Indices are 0-based in the frames (as in the source)   *)
(* and 1-based in the TLA+ sequences.                                      *)
(***************************************************************************)
EXTENDS Integers, Sequences, FiniteSets, TLC

VARIABLES
    heap,       \* address -> the list of integers stored in that row object
    board,      \* the caller's board object: a list of row addresses
    horz,       \* solve's local horz
    vert,       \* solve's local vert
    n,          \* explore's parameter n = len(board[0])
    solution,   \* explore's parameter solution: a list of row addresses
    stack,      \* the explore frames, outermost first: [r, i]
    solutions,  \* the module-level counter
    out,        \* stdout, one entry per solve run: [header, lines]
    pc,         \* "start", "explore", "done" or "error"
    errAt,      \* where the IndexError was raised
    run         \* how many times main has called solve

vars == <<heap, board, horz, vert, n, solution, stack, solutions, out, pc, errAt, run>>

(***************************************************************************)
(* Bounds of the model.                                                    *)
(***************************************************************************)
\* the boards tried have at most this many cells (sums not counted), see InputBoards
MaxCells == 3
\* main calls solve on the same board object at most this many times
MaxRuns == 2
\* the values a cell takes
CellValues == {0, 1}
\* the values a row or column sum takes
TargetValues == {0, 1, 2}

(***************************************************************************)
(* Helpers.                                                                *)
(***************************************************************************)
RECURSIVE SumSeq(_)
SumSeq(s) == IF s = <<>> THEN 0 ELSE s[1] + SumSeq(Tail(s))

RECURSIVE Pow2(_)
Pow2(k) == IF k = 0 THEN 1 ELSE 2 * Pow2(k - 1)

Front(s) == SubSeq(s, 1, Len(s) - 1)

Last(s) == s[Len(s)]

\* the address of the list object that "row = []" creates in the frame of depth r;
\* the board's own rows live at 1 .. MaxCells + 1
RowAddr(r) == MaxCells + 2 + r

\* the lists a list of addresses points to
Deref(h, refs) == [k \in 1..Len(refs) |-> h[refs[k]]]

(***************************************************************************)
(* The inputs: a board file is a list of rows, each ending in its row sum, *)
(* followed by the row of column sums.                                     *)
(***************************************************************************)
RowsOfLen(k) == [1..k -> CellValues]

\* every list of non-empty rows with at most c cells in all
RECURSIVE Boards(_)
Boards(c) ==
    {<<>>} \cup UNION {{<<row>> \o b : row \in RowsOfLen(k), b \in Boards(c - k)} : k \in 1..c}

\* the boards tried: every board of at most MaxCells cells, rows of unequal length
\* included, and the square boards of side 2
InputBoards == (Boards(MaxCells) \ {<<>>}) \cup [1..2 -> RowsOfLen(2)]

Rectangular(b) == \A r \in 1..Len(b) : Len(b[r]) = Len(b[1])

\* the column sums handed in with board b: one per column of the first row, and for
\* a rectangular board also one too few or one too many
VertChoices(b) ==
    LET w == Len(b[1]) IN
    [1..w -> TargetValues]
        \cup (IF Rectangular(b)
              THEN [1..(w - 1) -> TargetValues] \cup {Append(v, 0) : v \in [1..w -> TargetValues]}
              ELSE {})

\* the board as the board file writes it
RawBoard(b, h, v) == [r \in 1..Len(b) |-> Append(b[r], h[r])] \o <<v>>

Init ==
    \E b \in InputBoards :
        \E h \in [1..Len(b) -> TargetValues] :
            \E v \in VertChoices(b) :
                /\ heap = RawBoard(b, h, v)
                /\ board = [r \in 1..(Len(b) + 1) |-> r]
                /\ horz = <<>>
                /\ vert = <<>>
                /\ n = 0
                /\ solution = <<>>
                /\ stack = <<>>
                /\ solutions = 0
                /\ out = <<>>
                /\ pc = "start"
                /\ errAt = "none"
                /\ run = 0

(***************************************************************************)
(* solve                                                                   *)
(***************************************************************************)
\* the rows "horz.append(board[r].pop())" gets through: all of them, or those before
\* the first empty one, where pop raises
RECURSIVE PoppedRows(_, _, _)
PoppedRows(h, refs, r) ==
    IF r > Len(refs) \/ h[refs[r]] = <<>> THEN r - 1 ELSE PoppedRows(h, refs, r + 1)

Solve ==
    /\ pc = "start" \/ (pc = "done" /\ run < MaxRuns)
    /\ run' = run + 1
    /\ IF board = <<>>
       THEN \* board.pop() on an empty list
            /\ pc' = "error"
            /\ errAt' = "solve"
            /\ UNCHANGED <<heap, board, horz, vert, n, solution, stack, solutions, out>>
       ELSE LET b1 == Front(board)
                v == heap[Last(board)]
                p == PoppedRows(heap, b1, 1)
                h1 == [a \in DOMAIN heap \ {Last(board)} |->
                          IF \E r \in 1..p : b1[r] = a THEN Front(heap[a]) ELSE heap[a]]
                hz == [r \in 1..p |-> Last(heap[b1[r]])]
            IN  /\ board' = b1
                /\ heap' = h1
                /\ vert' = v
                /\ horz' = hz
                /\ IF p < Len(b1)
                   THEN \* board[r].pop() on an empty row
                        /\ pc' = "error"
                        /\ errAt' = "solve"
                        /\ UNCHANGED <<n, solution, stack, solutions, out>>
                   ELSE /\ out' = Append(out, [header |-> <<Deref(h1, b1), hz, v>>, lines |-> <<>>])
                        /\ solutions' = 0
                        /\ IF b1 = <<>>
                           THEN \* len(board[0]) on an empty board
                                /\ pc' = "error"
                                /\ errAt' = "solve"
                                /\ UNCHANGED <<n, solution, stack>>
                           ELSE /\ n' = Len(h1[b1[1]])
                                /\ solution' = b1
                                /\ stack' = <<[r |-> 0, i |-> 0]>>
                                /\ pc' = "explore"
                                /\ errAt' = "none"

(***************************************************************************)
(* explore, r < len(board): one iteration of "for i in range(1 << n)"      *)
(***************************************************************************)
\* lines 27-31: the row built for mask k from the board row brow, or the IndexError
\* of board[r][j]
RECURSIVE BuildRowInverted(_, _, _, _, _)
BuildRowInverted(brow, w, k, j, row) ==
    IF j >= w THEN [err |-> FALSE, row |-> row]
    ELSE IF k % 2 # 0 THEN BuildRowInverted(brow, w, k \div 2, j + 1, Append(row, 0))
    ELSE IF j + 1 > Len(brow) THEN [err |-> TRUE, row |-> row]
    ELSE BuildRowInverted(brow, w, k \div 2, j + 1, Append(row, brow[j + 1]))

RECURSIVE BuildRow(_, _, _, _, _)
BuildRow(brow, w, k, j, row) ==
    IF j >= w THEN [err |-> FALSE, row |-> row]
    ELSE IF k % 2 = 0 THEN BuildRow(brow, w, k \div 2, j + 1, Append(row, 0))
    ELSE IF j + 1 > Len(brow) THEN [err |-> TRUE, row |-> row]
    ELSE BuildRow(brow, w, k \div 2, j + 1, Append(row, brow[j + 1]))

\* line 34, solution[r] = row: slot r is bound to the new list object
StoreRowSkipped(h, sol, r, row) == [heap |-> h, sol |-> sol]

StoreRowInPlace(h, sol, r, row) == [heap |-> [h EXCEPT ![sol[r + 1]] = row], sol |-> sol]

StoreRow(h, sol, r, row) ==
    [heap |-> [a \in DOMAIN h \cup {RowAddr(r)} |-> IF a = RowAddr(r) THEN row ELSE h[a]],
     sol |-> [sol EXCEPT ![r + 1] = RowAddr(r)]]

Top == stack[Len(stack)]

\* the frame below the top one moves on to its next mask when the call returns
ReturnTo(st) ==
    IF Len(st) <= 1 THEN <<>>
    ELSE [Front(st) EXCEPT ![Len(st) - 1].i = @ + 1]

Enumerate ==
    /\ pc = "explore"
    /\ Top.r < Len(board)
    /\ Top.i < Pow2(n)
    /\ LET r == Top.r
           built == BuildRow(heap[board[r + 1]], n, Top.i, 0, <<>>)
       IN  IF built.err
           THEN /\ pc' = "error"
                /\ errAt' = "enumerate"
                /\ UNCHANGED <<heap, solution, stack>>
           ELSE IF SumSeq(built.row) = horz[r + 1]
                THEN LET st == StoreRow(heap, solution, r, built.row)
                     IN  /\ heap' = st.heap
                         /\ solution' = st.sol
                         /\ stack' = Append(stack, [r |-> r + 1, i |-> 0])
                         /\ UNCHANGED <<pc, errAt>>
                ELSE /\ stack' = [stack EXCEPT ![Len(stack)].i = @ + 1]
                     /\ UNCHANGED <<heap, solution, pc, errAt>>
    /\ UNCHANGED <<board, horz, vert, n, solutions, out, run>>

\* the for loop of a frame with r < len(board) is exhausted: explore returns
Return ==
    /\ pc = "explore"
    /\ Top.r < Len(board)
    /\ Top.i >= Pow2(n)
    /\ stack' = ReturnTo(stack)
    /\ IF Len(stack) = 1
       THEN \* solve returns; its locals and the rows they held are gone
            /\ pc' = "done"
            /\ solution' = <<>>
            /\ heap' = [a \in {board[k] : k \in 1..Len(board)} |-> heap[a]]
       ELSE UNCHANGED <<pc, solution, heap>>
    /\ UNCHANGED <<board, horz, vert, n, solutions, out, errAt, run>>

(***************************************************************************)
(* explore, r >= len(board): the column check                              *)
(***************************************************************************)
\* vsum(board, col): -1 stands for the IndexError of board[row][col]
RECURSIVE vsum(_, _, _, _)
vsum(grid, col, row, sum) ==
    IF row >= Len(grid) THEN sum
    ELSE IF col + 1 > Len(grid[row + 1]) THEN -1
    ELSE vsum(grid, col, row + 1, sum + grid[row + 1][col + 1])

\* lines 17-21, from iteration i on: "solved", "unsolved" or "IndexError"
RECURSIVE CheckColumns(_, _, _)
CheckColumns(grid, vt, i) ==
    IF i >= Len(grid) THEN "solved"
    ELSE IF vsum(grid, i, 0, 0) = -1 \/ i + 1 > Len(vt) THEN "IndexError"
    ELSE IF vsum(grid, i, 0, 0) # vt[i + 1] THEN "unsolved"
    ELSE CheckColumns(grid, vt, i + 1)

Validate ==
    /\ pc = "explore"
    /\ Top.r >= Len(board)
    /\ LET grid == Deref(heap, solution)
           res == CheckColumns(grid, vert, 0)
       IN  IF res = "IndexError"
           THEN /\ pc' = "error"
                /\ errAt' = "validate"
                /\ UNCHANGED <<stack, solutions, out>>
           ELSE /\ IF res = "solved"
                   THEN /\ solutions' = solutions + 1
                        /\ out' = [out EXCEPT ![Len(out)].lines =
                                      Append(@, <<solutions + 1, grid>>)]
                   ELSE UNCHANGED <<solutions, out>>
                /\ stack' = ReturnTo(stack)
                /\ UNCHANGED <<pc, errAt>>
    /\ UNCHANGED <<heap, board, horz, vert, n, solution, run>>

Next == Solve \/ Enumerate \/ Return \/ Validate

Spec == Init /\ [][Next]_vars

(***************************************************************************)
(* Vocabulary of the properties.                                           *)
(***************************************************************************)
\* the board as a matrix of values
BoardValue == Deref(heap, board)

\* solve got as far as calling explore: board, horz, vert and n are the search's inputs
RunStarted == pc \in {"explore", "done"} \/ (pc = "error" /\ errAt # "solve")

\* the preconditions of the search: m >= 1 rows of one width n >= 1, one target per
\* row and one per column
WellFormed ==
    /\ Len(board) >= 1
    /\ n >= 1
    /\ \A r \in 1..Len(board) : Len(BoardValue[r]) = n
    /\ Len(horz) = Len(board)
    /\ Len(vert) = n

\* the solution lines printed by the current run
Reported == out[Len(out)].lines

ReportedGrids == {Reported[x][2] : x \in 1..Len(Reported)}

ColSum(grid, c) == SumSeq([r \in 1..Len(grid) |-> grid[r][c]])

MeetsTargets(grid) ==
    /\ \A r \in 1..Len(board) : SumSeq(grid[r]) = horz[r]
    /\ \A c \in 1..n : ColSum(grid, c) = vert[c]

\* the reference: every keep/zero combination of the cells that meets every target
BruteForce ==
    {g \in {[r \in 1..Len(board) |-> [c \in 1..n |-> IF keep[r][c] THEN BoardValue[r][c] ELSE 0]] :
                keep \in [1..Len(board) -> [1..n -> BOOLEAN]]} : MeetsTargets(g)}

\* the masked row of mask k: bit j (least significant first) keeps entry j
Sel(brow, w, k) == [j \in 1..w |-> IF (k \div Pow2(j - 1)) % 2 = 1 THEN brow[j] ELSE 0]

(***************************************************************************)
(* The claims.                                                             *)
(***************************************************************************)
\* C1: on a well-formed board of any shape, every reported solution meets every row
\* target and every column target.
C1_Soundness ==
    (RunStarted /\ WellFormed) => \A g \in ReportedGrids : MeetsTargets(g)

\* C2: on a well-formed board, once the search has ended the set of reported grids is
\* exactly the set the brute-force reference finds.
C2_Exhaustive ==
    (RunStarted /\ pc # "explore" /\ WellFormed) => ReportedGrids = BruteForce

\* C3: on a well-formed board explore never raises an error.
C3_NeverRaises ==
    (RunStarted /\ WellFormed) => pc # "error"

\* C4: a malformed input is stopped at the entry of solve: it never reaches the
\* enumeration, a report, or a failure inside the recursion.
C4_MalformedStoppedAtEntry ==
    RunStarted => WellFormed

\* C5: a second solve on the same board ends normally and prints the same solution
\* lines, numbers included, as the first.
C5_SecondRunSame ==
    (run >= 2 /\ pc \in {"done", "error"}) =>
        /\ pc = "done"
        /\ Len(out) = run
        /\ out[run].lines = out[1].lines

\* C7: on a well-formed board no grid is reported twice, and the final counter is the
\* number of distinct grids that meet every target.
C7_SetOfSolutions ==
    (RunStarted /\ WellFormed) =>
        /\ \A x, y \in 1..Len(Reported) : Reported[x][2] = Reported[y][2] => x = y
        /\ pc = "done" => solutions = Cardinality(BruteForce)

\* C10: on a well-formed board the recursion is never deeper than m, no frame goes
\* past mask 2^n, and the search stops only by the return of explore at depth 0.
C10_SearchReturns ==
    (RunStarted /\ WellFormed) =>
        /\ Len(stack) <= Len(board) + 1
        /\ \A d \in 1..Len(stack) : stack[d].r = d - 1 /\ stack[d].i <= Pow2(n)
        /\ pc # "explore" => (pc = "done" /\ stack = <<>>)

\* one iteration of the mask loop on a row of width n: the candidate is the masked
\* row of the frame's mask; it is written to the slot and recursed on iff its sum
\* is the target, and otherwise the loop moves to the next mask; no error either way
C6_Step ==
    (pc = "explore" /\ Top.r < Len(board) /\ Top.i < Pow2(n) /\ Len(BoardValue[Top.r + 1]) = n) =>
        LET r == Top.r
            cand == Sel(BoardValue[r + 1], n, Top.i)
        IN  /\ pc' = "explore"
            /\ IF SumSeq(cand) = horz[r + 1]
               THEN /\ stack' = Append(stack, [r |-> r + 1, i |-> 0])
                    /\ heap'[solution'[r + 1]] = cand
               ELSE /\ stack' = [stack EXCEPT ![Len(stack)].i = Top.i + 1]
                    /\ solution' = solution
                    /\ heap' = heap

\* the masks of a frame start at 0, go up by one when the call made for an accepted
\* mask returns, and the frame returns only after mask 2^n - 1
C6_Order ==
    /\ (pc # "explore" /\ pc' = "explore") => stack' = <<[r |-> 0, i |-> 0]>>
    /\ (pc = "explore" /\ pc' # "error" /\ Len(stack') < Len(stack)) =>
        /\ Top.r < Len(board) => Top.i = Pow2(n)
        /\ Len(stack) > 1 =>
               stack' = [Front(stack) EXCEPT ![Len(stack) - 1].i = stack[Len(stack) - 1].i + 1]

\* C6: the candidates of a depth are the masked rows of masks 0 .. 2^n - 1 in
\* increasing order, bit j keeping entry j, and a candidate is accepted iff its sum
\* equals the row target.
C6_RowEnumerator == [][C6_Step /\ C6_Order]_vars

\* row [1,1] with target 1: mask 2 was accepted and wrote [0,1], after mask 1 wrote [1,0]
C6_Witness ==
    /\ pc = "explore"
    /\ n = 2
    /\ Len(stack) >= 2
    /\ BoardValue[1] = <<1, 1>>
    /\ horz[1] = 1
    /\ stack[1].i = 2
    /\ heap[solution[1]] = <<0, 1>>

\* C8: in every frame of depth r, each slot below r holds the masked row chosen by
\* the frame of that depth on the active path, a list of its own (not the board's
\* row object), of entries 0 or the board's value, summing to the row target.
C8_SlotsAreSelections ==
    pc = "explore" =>
        /\ Top.r = Len(stack) - 1
        /\ \A s \in 1..(Len(stack) - 1) :
            LET row == heap[solution[s]]
                brow == BoardValue[s]
            IN  /\ solution[s] # board[s]
                /\ Len(row) = n
                /\ \A j \in 1..n : row[j] = 0 \/ (j <= Len(brow) /\ row[j] = brow[j])
                /\ SumSeq(row) = horz[s]
                /\ row = Sel(brow, n, stack[s].i)

\* the column check is about to run on a board of two rows or more, and the last
\* slot was written before by a sibling branch that has been abandoned
C8_Witness ==
    /\ pc = "explore"
    /\ Len(board) >= 2
    /\ Top.r = Len(board)
    /\ \E k \in 0..(stack[Len(board)].i - 1) :
           /\ SumSeq(Sel(BoardValue[Len(board)], n, k)) = horz[Len(board)]
           /\ Sel(BoardValue[Len(board)], n, k) # heap[solution[Len(board)]]

\* C9: while explore runs, no step changes the board list, any cell of its rows,
\* horz or vert.
C9_InputsReadOnly ==
    [][pc = "explore" =>
          /\ board' = board
          /\ Deref(heap', board') = BoardValue
          /\ horz' = horz
          /\ vert' = vert]_vars

\* a slot holds a selection that differs from the board row it started as an alias of
C9_Witness ==
    /\ pc = "explore"
    /\ \E s \in 1..Len(solution) :
           /\ solution[s] # board[s]
           /\ heap[solution[s]] # heap[board[s]]

====
